---- MODULE Spec2Model ----
(***************************************************************************)
(* Model of the 52-To-Do application (src/src/App.tsx, dateUtils).         *)
(*                                                                         *)
(* Time.  An instant is a natural number of half days counted from         *)
(* 2001-01-01T00:00 (a Monday); MS_PER_DAY is therefore 2 units.  The      *)
(* local time zone is UTC, so that Date#getFullYear, Date#getDate and the  *)
(* ISO string of an instant all speak of the same calendar day.  ISO-8601  *)
(* strings of one format order as their instants do, so the string         *)
(* comparisons of the source are comparisons of instants here.  The build  *)
(* is the production build: getNow() is the real clock and                 *)
(* import.meta.env.DEV is false.                                           *)
(***************************************************************************)
EXTENDS Integers, Sequences, FiniteSets, TLC

VARIABLES
  now,                \* the wall clock (new Date())
  nextId,             \* next identifier crypto.randomUUID() hands out
  tasks,              \* useState<Task[]>
  joinWeekSnapshot,   \* useState<JoinWeekSnapshot>
  yearEndModal,       \* useState yearEndModal
  yearMetrics,        \* useMemo(getYearMetrics, [joinWeekSnapshot, tasks])
  hasCheckedYearRef,  \* useRef(false); FALSE until the page has mounted
  stTasks,            \* localStorage["52-to-do:tasks"]
  stJoinWeek,         \* localStorage["52-to-do:joinWeek"]
  stLastSeenYear,     \* localStorage["52-to-do:lastSeenYear"]
  stYearSummaries,    \* localStorage["52-to-do:yearSummaries"]
  checkinModal,       \* useState checkinModal
  hasCheckedCheckinRef,        \* useRef(false)
  stLastWeeklyCheckinWeekKey,  \* localStorage["52-to-do:lastWeeklyCheckinWeekKey"]
  stAppInstallTimestamp        \* localStorage["52-to-do:appInstallTimestamp"]

\* the state of the weekly check-in
checkinVars == <<checkinModal, hasCheckedCheckinRef,
                 stLastWeeklyCheckinWeekKey, stAppInstallTimestamp>>

vars == <<now, nextId, tasks, joinWeekSnapshot, yearEndModal, yearMetrics,
          hasCheckedYearRef, stTasks, stJoinWeek, stLastSeenYear,
          stYearSummaries, checkinVars>>

(***************************************************************************)
(* Bounds of the model.                                                    *)
(***************************************************************************)
\* identifiers handed out in one run (tasks and subtasks together)
MaxIds == 3
\* half days the clock advances in one run
MaxTicks == 1

(***************************************************************************)
(* Program constants.                                                      *)
(***************************************************************************)
\* null of a nullable string or number
NULL == -1
\* null of a nullable object, and an absent localStorage key
NullRec == [null |-> TRUE]
MS_PER_DAY == 2
WEEKS_IN_GRID == 52
\* five minutes: less than one unit of time, and instants are whole units
SANITIZE_FUTURE_TOLERANCE_MS == 0
\* 24 hours
COOLDOWN_MS == MS_PER_DAY

Min(a, b) == IF a < b THEN a ELSE b
Max(a, b) == IF a > b THEN a ELSE b

(***************************************************************************)
(* The Gregorian calendar, as Date implements it.                          *)
(***************************************************************************)
\* leap years in 2001 .. y-1
LeapsBefore(y) ==
  ((y - 2001) \div 4) - ((y - 2001) \div 100) + ((y - 2001) \div 400)

\* day number of January 1st of year y
YearStartDay(y) == 365 * (y - 2001) + LeapsBefore(y)

\* calendar year of a day number
YearOfDay(d) ==
  LET y0 == 2001 + (d \div 366)
  IN  CHOOSE y \in y0 .. (y0 + 2) : YearStartDay(y) <= d /\ d < YearStartDay(y + 1)

\* Date#getUTCDay of the midnight of a day number: 0 = Sunday .. 6 = Saturday
getUTCDay(d) == (d + 1) % 7

\* the calendar day (day number) an instant falls on
DayOf(ts) == ts \div MS_PER_DAY

getFullYear(ts) == YearOfDay(DayOf(ts))

\* mutant: Sunday counts as day 0 of its week, not as day 7
getISOWeekSundayFirst(ts) ==
  LET d == DayOf(ts)
      dayNum == getUTCDay(d)
      th == d + 4 - dayNum
      isoYear == YearOfDay(th)
      yearStart == YearStartDay(isoYear)
  IN  [isoYear |-> isoYear, isoWeek |-> ((th - yearStart) + 1 + 6) \div 7]

getISOWeek(ts) ==
  LET d == DayOf(ts)
      dayNum == IF getUTCDay(d) = 0 THEN 7 ELSE getUTCDay(d)
      th == d + 4 - dayNum
      isoYear == YearOfDay(th)
      yearStart == YearStartDay(isoYear)
  IN  [isoYear |-> isoYear, isoWeek |-> ((th - yearStart) + 1 + 6) \div 7]

startOfDay(ts) == DayOf(ts) * MS_PER_DAY

getNow == now

realNowISO == now

(***************************************************************************)
(* Sequences.                                                              *)
(***************************************************************************)
Count(s, P(_)) == Cardinality({i \in DOMAIN s : P(s[i])})

Every(s, P(_)) == \A i \in DOMAIN s : P(s[i])

\* String#trim on a title given as a sequence of characters
RECURSIVE TrimLeft(_)
TrimLeft(s) == IF s # <<>> /\ Head(s) = " " THEN TrimLeft(Tail(s)) ELSE s

RECURSIVE TrimRight(_)
TrimRight(s) ==
  IF s # <<>> /\ s[Len(s)] = " " THEN TrimRight(SubSeq(s, 1, Len(s) - 1)) ELSE s

trim(s) == TrimRight(TrimLeft(s))

\* what the user may type into a title field
Titles == { <<" ">>, <<" ", "a", " ">> }

(***************************************************************************)
(* Tasks and the rules of parent/subtask completion.                       *)
(***************************************************************************)
Subtask(id, title, createdAt) ==
  [id |-> id, title |-> title, completed |-> FALSE, createdAt |-> createdAt,
   completedAt |-> NULL]

\* mutant: a new task carries the manual flag
TaskMarkedManual(id, title, createdAt) ==
  [id |-> id, title |-> title, completed |-> FALSE, createdAt |-> createdAt,
   completedAt |-> NULL, subtasks |-> <<>>, manuallyCompleted |-> TRUE]

Task(id, title, createdAt) ==
  [id |-> id, title |-> title, completed |-> FALSE, createdAt |-> createdAt,
   completedAt |-> NULL, subtasks |-> <<>>, manuallyCompleted |-> FALSE]

\* prev.map((t) => t.id !== id ? t : f(t))
MapTask(prev, id, f(_)) ==
  [i \in DOMAIN prev |-> IF prev[i].id # id THEN prev[i] ELSE f(prev[i])]

areAllSubtasksCompleted(task) ==
  Len(task.subtasks) > 0 /\ Every(task.subtasks, LAMBDA s : s.completed)

\* mutant: the parent is marked completed and its completedAt left as it was
syncParentWithoutTimestamp(task, ts) ==
  IF ~areAllSubtasksCompleted(task) THEN task
  ELSE [task EXCEPT !.completed = TRUE]

syncParentCompletionFromSubtasks(task, ts) ==
  IF ~areAllSubtasksCompleted(task) THEN task
  ELSE [task EXCEPT !.completed = TRUE,
                    !.completedAt = IF task.completedAt # NULL
                                    THEN task.completedAt ELSE ts]

\* mutant: un-completing does not re-evaluate the subtasks
toggleCompletedWithoutSync(t, ts) ==
  IF ~t.completed
  THEN [t EXCEPT !.completed = TRUE, !.completedAt = ts,
                 !.manuallyCompleted = TRUE]
  ELSE [t EXCEPT !.completed = FALSE, !.completedAt = NULL,
                 !.manuallyCompleted = FALSE]

\* mutant: un-completing keeps the manual flag
toggleCompletedKeepsManual(t, ts) ==
  IF ~t.completed
  THEN [t EXCEPT !.completed = TRUE, !.completedAt = ts,
                 !.manuallyCompleted = TRUE]
  ELSE syncParentCompletionFromSubtasks(
         [t EXCEPT !.completed = FALSE, !.completedAt = NULL], ts)

\* the updater of handleToggleCompleted, on one task
toggleCompleted(t, ts) ==
  IF ~t.completed
  THEN [t EXCEPT !.completed = TRUE, !.completedAt = ts,
                 !.manuallyCompleted = TRUE]
  ELSE syncParentCompletionFromSubtasks(
         [t EXCEPT !.completed = FALSE, !.completedAt = NULL,
                   !.manuallyCompleted = FALSE], ts)

\* mutant: the manual flag does not protect the parent
toggleSubtaskIgnoresManual(task, subtaskId, ts) ==
  LET subs == task.subtasks
      updatedSubs ==
        [i \in DOMAIN subs |->
           IF subs[i].id = subtaskId
           THEN [subs[i] EXCEPT !.completed = ~subs[i].completed,
                                !.completedAt = IF ~subs[i].completed
                                                THEN ts ELSE NULL]
           ELSE subs[i]]
      updated == [task EXCEPT !.subtasks = updatedSubs]
      allComplete ==
        Len(updatedSubs) > 0 /\ Every(updatedSubs, LAMBDA s : s.completed)
  IN  IF allComplete THEN syncParentCompletionFromSubtasks(updated, ts)
      ELSE [updated EXCEPT !.completed = FALSE, !.completedAt = NULL]

\* the updater of handleToggleSubtask, on the parent
toggleSubtask(task, subtaskId, ts) ==
  LET subs == task.subtasks
      updatedSubs ==
        [i \in DOMAIN subs |->
           IF subs[i].id = subtaskId
           THEN [subs[i] EXCEPT !.completed = ~subs[i].completed,
                                !.completedAt = IF ~subs[i].completed
                                                THEN ts ELSE NULL]
           ELSE subs[i]]
      updated == [task EXCEPT !.subtasks = updatedSubs]
      allComplete ==
        Len(updatedSubs) > 0 /\ Every(updatedSubs, LAMBDA s : s.completed)
  IN  IF allComplete THEN syncParentCompletionFromSubtasks(updated, ts)
      ELSE IF ~task.manuallyCompleted
           THEN [updated EXCEPT !.completed = FALSE, !.completedAt = NULL]
           ELSE updated

\* the updater of handleAddSubtask, on the parent
addSubtask(task, newSub) ==
  [task EXCEPT !.subtasks = Append(task.subtasks, newSub)]

\* mutant: a deletion un-completes a parent completed by hand as well
deleteSubtaskIgnoresManual(task, subtaskId, ts) ==
  LET subs == SelectSeq(task.subtasks, LAMBDA s : s.id # subtaskId)
      updated == [task EXCEPT !.subtasks = subs]
  IN  IF areAllSubtasksCompleted(updated)
      THEN syncParentCompletionFromSubtasks(updated, ts)
      ELSE IF Len(subs) > 0 /\ ~Every(subs, LAMBDA s : s.completed)
           THEN [updated EXCEPT !.completed = FALSE, !.completedAt = NULL]
           ELSE updated

\* the updater of handleDeleteSubtask, on the parent
deleteSubtask(task, subtaskId, ts) ==
  LET subs == SelectSeq(task.subtasks, LAMBDA s : s.id # subtaskId)
      updated == [task EXCEPT !.subtasks = subs]
  IN  IF areAllSubtasksCompleted(updated)
      THEN syncParentCompletionFromSubtasks(updated, ts)
      ELSE IF ~task.manuallyCompleted /\ Len(subs) > 0
                /\ ~Every(subs, LAMBDA s : s.completed)
           THEN [updated EXCEPT !.completed = FALSE, !.completedAt = NULL]
           ELSE updated

(***************************************************************************)
(* The metrics engine.                                                     *)
(***************************************************************************)
\* earliest createdAt among the tasks created in calendar year `year`
firstTaskAtForYear(ts, year) ==
  LET tasksInCurrentYear ==
        SelectSeq(ts, LAMBDA t : getFullYear(t.createdAt) = year)
      created == {tasksInCurrentYear[i].createdAt : i \in DOMAIN tasksInCurrentYear}
  IN  IF Len(tasksInCurrentYear) > 0
      THEN CHOOSE m \in created : \A c \in created : m <= c
      ELSE NULL

\* mutant: the target is not floored at 1
targetWithoutFloor(firstTaskAt) ==
  IF firstTaskAt = NULL THEN 52
  ELSE Min(52, 52 - getISOWeek(firstTaskAt).isoWeek + 1)

targetTasksThisYear(firstTaskAt) ==
  IF firstTaskAt = NULL THEN 52
  ELSE Min(52, Max(1, 52 - getISOWeek(firstTaskAt).isoWeek + 1))

tasksCompleted(ts, firstTaskAt) ==
  IF firstTaskAt = NULL THEN 0
  ELSE Count(ts, LAMBDA t : t.completed /\ t.completedAt # NULL
                            /\ t.createdAt >= firstTaskAt)

\* mutant: the window the first task falls in is not counted
weeksElapsedWithoutFirstWindow(startDate, realNow) ==
  IF startDate # NULL
  THEN Max(1, (startOfDay(realNow) - startOfDay(startDate))
                 \div (7 * MS_PER_DAY))
  ELSE 0

\* rolling 7-day windows from the first task of the year
weeksElapsed(startDate, realNow) ==
  IF startDate # NULL
  THEN Max(1, ((startOfDay(realNow) - startOfDay(startDate))
                 \div (7 * MS_PER_DAY)) + 1)
  ELSE 0

tasksCompletedSinceStart(ts, startDate) ==
  Count(ts, LAMBDA t : t.completed /\ t.completedAt # NULL
                       /\ startDate # NULL /\ t.completedAt >= startDate)

paceStatusOf(onPace, weeks) ==
  IF ~onPace /\ weeks > 0 THEN "behind"
  ELSE IF onPace /\ weeks > 0 THEN "onTrack"
  ELSE "behind"

getYearMetrics(snapshot, ts, realNow) ==
  LET wk == getISOWeek(realNow)
      calendarWeekNow == wk.isoWeek
      year == getFullYear(realNow)
      first == firstTaskAtForYear(ts, year)
      weeks == weeksElapsed(first, realNow)
      sinceStart == tasksCompletedSinceStart(ts, first)
      onPace == weeks > 0 /\ sinceStart >= weeks
  IN  [isoYearNow |-> wk.isoYear,
       calendarWeekNow |-> calendarWeekNow,
       joinWeek |-> IF first # NULL THEN getISOWeek(first).isoWeek ELSE NULL,
       paceWeeks |-> weeks,
       weeksLeftCalendar |->
         Max(0, WEEKS_IN_GRID - Min(WEEKS_IN_GRID, calendarWeekNow)),
       tasksCompleted |-> tasksCompleted(ts, first),
       tasksCompletedSinceJoin |-> sinceStart,
       targetTasksThisYear |-> targetTasksThisYear(first),
       onPace |-> onPace,
       currentWeek |-> IF calendarWeekNow > 52 THEN 52 ELSE calendarWeekNow,
       paceStatus |-> paceStatusOf(onPace, weeks)]

(***************************************************************************)
(* The persistence adapter.  A stored item is NullRec (no such key) or     *)
(* [json |-> v], the JSON text of v.                                       *)
(***************************************************************************)
JSONstringify(v) == [json |-> v]

\* useState(false), and no caller of setIsPreview: preview mode is never on
isPreview == FALSE

\* the guard "if (__isPreview) return" of every writer: the item a key holds
\* after a write of v over old
setItem(old, v) == IF isPreview THEN old ELSE v

saveTasks(old, ts) == setItem(old, JSONstringify(ts))

saveJoinWeek(old, joinWeek, year) ==
  setItem(old, JSONstringify([joinWeek |-> joinWeek, year |-> year]))

setLastSeenYear(old, year) == setItem(old, year)

JSONparse(item) == item.json

\* t.f ?? d
OrDefault(t, f, d) == IF f \in DOMAIN t THEN t[f] ELSE d

\* mutant: the load forgets the manuallyCompleted flag
loadTasksDroppingManual(item) ==
  IF item = NullRec THEN <<>>
  ELSE LET parsed == JSONparse(item)
       IN  [i \in DOMAIN parsed |->
              LET t == parsed[i]
                  subs == OrDefault(t, "subtasks", <<>>)
              IN  [id |-> t.id, title |-> t.title, completed |-> t.completed,
                   createdAt |-> t.createdAt,
                   completedAt |-> OrDefault(t, "completedAt", NULL),
                   subtasks |->
                     [j \in DOMAIN subs |->
                        [id |-> subs[j].id, title |-> subs[j].title,
                         completed |-> subs[j].completed,
                         createdAt |-> subs[j].createdAt,
                         completedAt |-> OrDefault(subs[j], "completedAt", NULL)]],
                   manuallyCompleted |-> FALSE]]

loadTasks(item) ==
  IF item = NullRec THEN <<>>
  ELSE LET parsed == JSONparse(item)
       IN  [i \in DOMAIN parsed |->
              LET t == parsed[i]
                  subs == OrDefault(t, "subtasks", <<>>)
              IN  [id |-> t.id, title |-> t.title, completed |-> t.completed,
                   createdAt |-> t.createdAt,
                   completedAt |-> OrDefault(t, "completedAt", NULL),
                   subtasks |->
                     [j \in DOMAIN subs |->
                        [id |-> subs[j].id, title |-> subs[j].title,
                         completed |-> subs[j].completed,
                         createdAt |-> subs[j].createdAt,
                         completedAt |-> OrDefault(subs[j], "completedAt", NULL)]],
                   manuallyCompleted |-> OrDefault(t, "manuallyCompleted", FALSE)]]

\* mutant: the timestamps of subtasks are left as they are
sanitizeTasksOnly(ts, realNow) ==
  LET threshold == realNow + SANITIZE_FUTURE_TOLERANCE_MS
      clampC(c) == IF c > threshold THEN realNow ELSE c
      clampD(c) == IF c # NULL /\ c > threshold THEN realNow ELSE c
      out == [i \in DOMAIN ts |->
                [ts[i] EXCEPT !.createdAt = clampC(@),
                              !.completedAt = clampD(@)]]
  IN  [tasks |-> out, changed |-> out # ts]

sanitizeTaskTimestamps(ts, realNow) ==
  LET threshold == realNow + SANITIZE_FUTURE_TOLERANCE_MS
      clampC(c) == IF c > threshold THEN realNow ELSE c
      clampD(c) == IF c # NULL /\ c > threshold THEN realNow ELSE c
      subsOf(t) ==
        [j \in DOMAIN t.subtasks |->
           [t.subtasks[j] EXCEPT !.createdAt = clampC(@),
                                 !.completedAt = clampD(@)]]
      out == [i \in DOMAIN ts |->
                [ts[i] EXCEPT !.createdAt = clampC(@),
                              !.completedAt = clampD(@),
                              !.subtasks = subsOf(ts[i])]]
  IN  [tasks |-> out, changed |-> out # ts]

getStoredJoinWeek(item) ==
  IF item = NullRec THEN NullRec
  ELSE LET parsed == JSONparse(item)
       IN  IF parsed.year # getFullYear(getNow) THEN NullRec
           ELSE IF parsed.joinWeek < 1 \/ parsed.joinWeek > 52 THEN NullRec
           ELSE [joinWeek |-> parsed.joinWeek, year |-> parsed.year]

loadYearSummaries(item) == IF item = NullRec THEN <<>> ELSE JSONparse(item)

\* mutant: the summary is written twice
appendYearSummaryTwice(item, summary) ==
  setItem(item, JSONstringify(loadYearSummaries(item) \o <<summary, summary>>))

appendYearSummary(item, summary) ==
  setItem(item, JSONstringify(Append(loadYearSummaries(item), summary)))

getDayOfYear(ts) == (DayOf(ts) - YearStartDay(getFullYear(ts))) + 1

getWeekFromDate(ts) == Min(52, Max(1, (getDayOfYear(ts) + 6) \div 7))

getLongestStreak(ts, year) ==
  LET weeks == {getWeekFromDate(ts[i].completedAt) :
                  i \in {k \in DOMAIN ts : ts[k].completed /\ ts[k].completedAt # NULL
                                           /\ getFullYear(ts[k].completedAt) = year}}
      runs == {b - a + 1 : <<a, b>> \in {p \in weeks \X weeks :
                 p[1] <= p[2] /\ \A w \in p[1] .. p[2] : w \in weeks}}
  IN  IF weeks = {} THEN 0 ELSE CHOOSE m \in runs : \A r \in runs : r <= m

(***************************************************************************)
(* The weekly check-in.                                                    *)
(***************************************************************************)
\* "YYYY-WW": the digits of the ISO year followed by the two digits of the
\* ISO week, read as a number
getWeekKey(ts) ==
  LET w == getISOWeek(ts) IN (w.isoYear * 100) + w.isoWeek

\* the count the weekKey / completedThisWeekCount memo computes
completedThisWeekCount(ts, nowDate) ==
  Count(ts, LAMBDA t : t.completed /\ t.completedAt # NULL
                       /\ getWeekKey(t.completedAt) = getWeekKey(nowDate))

\* mutant: the week key of a check is not written
keepLastWeeklyCheckinWeekKey(old, key) == old

setLastWeeklyCheckinWeekKey(old, key) == setItem(old, key)

setAppInstallTimestamp(old, ts) == setItem(old, ts)

\* mutant: the cooldown has passed as soon as a timestamp is recorded
isPastInstallCooldownOnceRecorded(item, dateNow) ==
  IF item = NULL
  THEN [result |-> FALSE, item |-> setAppInstallTimestamp(item, dateNow)]
  ELSE [result |-> TRUE, item |-> item]

\* the value isPastInstallCooldown returns and the stored timestamp it leaves
isPastInstallCooldown(item, dateNow) ==
  IF item = NULL
  THEN [result |-> FALSE, item |-> setAppInstallTimestamp(item, dateNow)]
  ELSE [result |-> dateNow - item >= COOLDOWN_MS, item |-> item]

\* The body of the weekly check-in effect in the production build, on the
\* task list its render holds: the stored week key and install timestamp it
\* leaves and the prompt it sets.
checkinEffect(seen, last, install, nowDate) ==
  LET weekKey == getWeekKey(nowDate)
      cooldown == isPastInstallCooldown(install, nowDate)
  IN  IF weekKey = last
      THEN [last |-> last, install |-> install, modal |-> NullRec]
      ELSE IF completedThisWeekCount(seen, nowDate) > 0
      THEN [last |-> setLastWeeklyCheckinWeekKey(last, weekKey),
            install |-> install, modal |-> NullRec]
      ELSE [last |-> setLastWeeklyCheckinWeekKey(last, weekKey),
            install |-> cooldown.item,
            modal |-> IF cooldown.result THEN [source |-> "real"] ELSE NullRec]

(***************************************************************************)
(* The application: mount, the clock, and the handlers.                    *)
(***************************************************************************)
\* the first instant of the run: the afternoon of December 31st, 2025
ClockStart == (YearStartDay(2026) * MS_PER_DAY) - 1

\* the body of the year-rollover effect for lastSeen < currentYear, on the
\* task list and snapshot its render holds
YearEndSummary(seen, snapshot, lastSeen) ==
  LET count == Count(seen, LAMBDA t : t.completed /\ t.completedAt # NULL
                                      /\ getFullYear(t.completedAt) = lastSeen)
      paceWeeksForYear ==
        IF snapshot # NullRec /\ snapshot.year = lastSeen
        THEN Min(52, Max(1, 52 - snapshot.joinWeek + 1))
        ELSE 52
  IN  [previousYear |-> lastSeen,
       tasksCompleted |-> count,
       streakWeeks |-> getLongestStreak(seen, lastSeen),
       paceWeeks |-> paceWeeksForYear,
       achieved |-> paceWeeksForYear > 0 /\ count >= paceWeeksForYear]

\* The page loads.  The first render holds tasks = [], the stored join week
\* and no prompt; its effects run in order (load, year check, save, weekly
\* check-in) and the load's setTasks renders again, which saves the loaded
\* list; both refs are set by then, so the second pass checks nothing.
Mount ==
  LET snapshot == getStoredJoinWeek(stJoinWeek)
      raw == loadTasks(stTasks)
      san == sanitizeTaskTimestamps(raw, now)
      loaded == IF san.changed THEN san.tasks ELSE raw
      firstRender == <<>>
      currentYear == getFullYear(getNow)
      lastSeen == stLastSeenYear
      checkin == checkinEffect(firstRender, stLastWeeklyCheckinWeekKey,
                               stAppInstallTimestamp, getNow)
  IN  /\ tasks' = loaded
      /\ checkinModal' = checkin.modal
      /\ hasCheckedCheckinRef' = TRUE
      /\ stLastWeeklyCheckinWeekKey' = checkin.last
      /\ stAppInstallTimestamp' = checkin.install
      /\ joinWeekSnapshot' = snapshot
      /\ yearEndModal' =
           IF lastSeen # NULL /\ lastSeen < currentYear
           THEN YearEndSummary(firstRender, snapshot, lastSeen)
           ELSE NullRec
      /\ stLastSeenYear' =
           IF lastSeen = NULL THEN setLastSeenYear(stLastSeenYear, currentYear)
           ELSE stLastSeenYear
      /\ hasCheckedYearRef' = TRUE
      /\ stTasks' = saveTasks(saveTasks(stTasks, firstRender), loaded)
      /\ yearMetrics' = getYearMetrics(snapshot, loaded, now)
      /\ UNCHANGED <<now, nextId, stJoinWeek, stYearSummaries>>

\* time passes
Tick ==
  /\ now < ClockStart + MaxTicks
  /\ now' = now + 1
  /\ UNCHANGED checkinVars
  /\ UNCHANGED <<nextId, tasks, joinWeekSnapshot, yearEndModal, 
                 yearMetrics, hasCheckedYearRef, stTasks, stJoinWeek,
                 stLastSeenYear, stYearSummaries>>

\* setTasks(next) followed by the render it causes: the metrics are
\* recomputed and the save effect mirrors the list
SetTasks(next, snapshot) ==
  /\ tasks' = next
  /\ yearMetrics' = getYearMetrics(snapshot, next, now)
  /\ stTasks' = saveTasks(stTasks, next)

TaskIds == {tasks[i].id : i \in DOMAIN tasks}

TaskOf(id) == tasks[CHOOSE i \in DOMAIN tasks : tasks[i].id = id]

SubtaskIds(id) == {TaskOf(id).subtasks[j].id : j \in DOMAIN TaskOf(id).subtasks}

\* mutant: every added task rewrites the join week
joinWeekOnEveryAdd(snapshot, nowDate) ==
  [joinWeek |-> Min(52, getISOWeek(nowDate).isoWeek),
   year |-> getFullYear(nowDate)]

\* the join-week snapshot handleAddTask leaves, from the one it finds
joinWeekOnAdd(snapshot, nowDate) ==
  IF snapshot # NullRec /\ snapshot.year = getFullYear(nowDate)
  THEN snapshot
  ELSE [joinWeek |-> Min(52, getISOWeek(nowDate).isoWeek),
        year |-> getFullYear(nowDate)]

handleAddTask(input) ==
  LET title == trim(input)
      nowDate == getNow
      year == getFullYear(nowDate)
      alreadyHaveJoinForThisYear ==
        joinWeekSnapshot # NullRec /\ joinWeekSnapshot.year = year
      week == getISOWeek(nowDate).isoWeek
      snapshot == joinWeekOnAdd(joinWeekSnapshot, nowDate)
      newTask == Task(nextId, title, realNowISO)
  IN  /\ hasCheckedYearRef
      /\ UNCHANGED checkinVars
      /\ IF title = <<>>
         THEN UNCHANGED <<now, nextId, tasks, joinWeekSnapshot, yearEndModal,
                          yearMetrics, hasCheckedYearRef, stTasks,
                          stJoinWeek, stLastSeenYear, stYearSummaries>>
         ELSE /\ nextId <= MaxIds
              /\ nextId' = nextId + 1
              /\ joinWeekSnapshot' = snapshot
              /\ stJoinWeek' =
                   IF alreadyHaveJoinForThisYear THEN stJoinWeek
                   ELSE saveJoinWeek(stJoinWeek, Min(52, week), year)
              /\ SetTasks(<<newTask>> \o tasks, snapshot)
              /\ UNCHANGED <<now, yearEndModal, hasCheckedYearRef,
                             stLastSeenYear, stYearSummaries>>

\* The status handleToggleCompleted predicts from the metrics of the last
\* render, and the call of triggerPaceCelebration it decides on ("none": no
\* call).  The celebration itself is a toast and an animation, presentation
\* state that is not part of the model.
paceCelebration(taskId) ==
  LET target == TaskOf(taskId)
      willComplete == ~target.completed
      prevSinceJoin == yearMetrics.tasksCompletedSinceJoin
      prevStatus == yearMetrics.paceStatus
      paceW == yearMetrics.paceWeeks
      nextSinceJoin == prevSinceJoin + (IF willComplete THEN 1 ELSE -1)
      nextStatus ==
        IF nextSinceJoin < paceW THEN "behind"
        ELSE IF nextSinceJoin = paceW THEN "onTrack" ELSE "ahead"
  IN  IF willComplete /\ prevStatus = "behind"
         /\ (nextStatus = "onTrack" \/ nextStatus = "ahead")
      THEN nextStatus ELSE "none"

handleToggleCompleted(taskId) ==
  /\ hasCheckedYearRef
  /\ UNCHANGED checkinVars
  /\ taskId \in TaskIds
  /\ SetTasks(MapTask(tasks, taskId, LAMBDA t : toggleCompleted(t, realNowISO)),
              joinWeekSnapshot)
  /\ UNCHANGED <<now, nextId, joinWeekSnapshot, yearEndModal,
                 hasCheckedYearRef, stJoinWeek, stLastSeenYear,
                 stYearSummaries>>

handleToggleSubtask(parentId, subtaskId) ==
  /\ hasCheckedYearRef
  /\ UNCHANGED checkinVars
  /\ parentId \in TaskIds
  /\ subtaskId \in SubtaskIds(parentId)
  /\ SetTasks(MapTask(tasks, parentId,
                      LAMBDA t : toggleSubtask(t, subtaskId, realNowISO)),
              joinWeekSnapshot)
  /\ UNCHANGED <<now, nextId, joinWeekSnapshot, yearEndModal, 
                 hasCheckedYearRef, stJoinWeek, stLastSeenYear, stYearSummaries>>

handleAddSubtask(parentId, title) ==
  LET trimmed == trim(title)
      newSub == Subtask(nextId, trimmed, realNowISO)
  IN  /\ hasCheckedYearRef
      /\ UNCHANGED checkinVars
      /\ parentId \in TaskIds
      /\ IF trimmed = <<>>
         THEN UNCHANGED <<now, nextId, tasks, joinWeekSnapshot, yearEndModal,
                          yearMetrics, hasCheckedYearRef, stTasks,
                          stJoinWeek, stLastSeenYear, stYearSummaries>>
         ELSE /\ nextId <= MaxIds
              /\ nextId' = nextId + 1
              /\ SetTasks(MapTask(tasks, parentId, LAMBDA t : addSubtask(t, newSub)),
                          joinWeekSnapshot)
              /\ UNCHANGED <<now, joinWeekSnapshot, yearEndModal, 
                             hasCheckedYearRef, stJoinWeek, stLastSeenYear,
                             stYearSummaries>>

handleDeleteSubtask(parentId, subtaskId) ==
  /\ hasCheckedYearRef
  /\ UNCHANGED checkinVars
  /\ parentId \in TaskIds
  /\ subtaskId \in SubtaskIds(parentId)
  /\ SetTasks(MapTask(tasks, parentId,
                      LAMBDA t : deleteSubtask(t, subtaskId, realNowISO)),
              joinWeekSnapshot)
  /\ UNCHANGED <<now, nextId, joinWeekSnapshot, yearEndModal, 
                 hasCheckedYearRef, stJoinWeek, stLastSeenYear, stYearSummaries>>

handleDelete(taskId) ==
  /\ hasCheckedYearRef
  /\ UNCHANGED checkinVars
  /\ taskId \in TaskIds
  /\ SetTasks(SelectSeq(tasks, LAMBDA t : t.id # taskId), joinWeekSnapshot)
  /\ UNCHANGED <<now, nextId, joinWeekSnapshot, yearEndModal, 
                 hasCheckedYearRef, stJoinWeek, stLastSeenYear, stYearSummaries>>

\* the buttons the year-end prompt renders
YearEndOptions ==
  IF yearEndModal = NullRec THEN {}
  ELSE IF yearEndModal.tasksCompleted >= Max(1, yearEndModal.paceWeeks)
       THEN {"startNewYear", "close"}
       ELSE {"carryForward", "startFresh"}

\* the values of the option parameter of closeYearEndModal
YearEndChoices == {"close", "startNewYear", "carryForward", "startFresh"}

\* mutant: carry forward keeps the completed tasks too
yearEndTasksKeepsCompleted(option, prev) ==
  IF option = "startFresh" \/ option = "startNewYear" THEN <<>> ELSE prev

\* the task list closeYearEndModal(option) leaves, from the list prev
yearEndTasks(option, prev) ==
  IF option = "carryForward" THEN SelectSeq(prev, LAMBDA t : ~t.completed)
  ELSE IF option = "startFresh" \/ option = "startNewYear" THEN <<>>
  ELSE prev

\* the archive closeYearEndModal(option) leaves, from the stored item
yearEndArchive(option, item, modal) ==
  IF option # "close"
  THEN appendYearSummary(item, [year |-> modal.previousYear,
                                tasksCompleted |-> modal.tasksCompleted,
                                streakWeeks |-> modal.streakWeeks,
                                paceWeeks |-> modal.paceWeeks])
  ELSE item

closeYearEndModal(option) ==
  LET currentYear == getFullYear(getNow)
      snapshot == [joinWeek |-> 1, year |-> currentYear]
  IN  /\ yearEndModal # NullRec
      /\ UNCHANGED checkinVars
      /\ stYearSummaries' = yearEndArchive(option, stYearSummaries, yearEndModal)
      /\ IF option # "close"
         THEN /\ SetTasks(yearEndTasks(option, tasks), snapshot)
              /\ stJoinWeek' = saveJoinWeek(stJoinWeek, 1, currentYear)
              /\ joinWeekSnapshot' = snapshot
         ELSE UNCHANGED <<tasks, yearMetrics, stTasks, stJoinWeek,
                          joinWeekSnapshot>>
      /\ stLastSeenYear' = setLastSeenYear(stLastSeenYear, currentYear)
      /\ yearEndModal' = NullRec
      /\ UNCHANGED <<now, nextId, hasCheckedYearRef>>

\* the button of the weekly check-in prompt
dismissCheckinModal ==
  /\ checkinModal # NullRec
  /\ checkinModal' = NullRec
  /\ UNCHANGED <<now, nextId, tasks, joinWeekSnapshot, yearEndModal,
                 yearMetrics, hasCheckedYearRef, stTasks, stJoinWeek,
                 stLastSeenYear, stYearSummaries, hasCheckedCheckinRef,
                 stLastWeeklyCheckinWeekKey, stAppInstallTimestamp>>

Init ==
  /\ now = ClockStart
  /\ nextId = 1
  /\ tasks = <<>>
  /\ joinWeekSnapshot = NullRec
  /\ yearEndModal = NullRec
  /\ yearMetrics = getYearMetrics(NullRec, <<>>, ClockStart)
  /\ hasCheckedYearRef = FALSE
  /\ stTasks = NullRec
  /\ stJoinWeek = NullRec
  /\ stLastSeenYear = NULL
  /\ stYearSummaries = NullRec
  /\ checkinModal = NullRec
  /\ hasCheckedCheckinRef = FALSE
  /\ stLastWeeklyCheckinWeekKey = NULL
  /\ stAppInstallTimestamp = NULL

Next ==
  \/ Mount
  \/ Tick
  \/ \E input \in Titles : handleAddTask(input)
  \/ \E taskId \in TaskIds : handleToggleCompleted(taskId)
  \/ \E parentId \in TaskIds : \E subtaskId \in SubtaskIds(parentId) :
       handleToggleSubtask(parentId, subtaskId)
  \/ \E parentId \in TaskIds : \E title \in Titles :
       handleAddSubtask(parentId, title)
  \/ \E parentId \in TaskIds : \E subtaskId \in SubtaskIds(parentId) :
       handleDeleteSubtask(parentId, subtaskId)
  \/ \E taskId \in TaskIds : handleDelete(taskId)
  \/ \E option \in YearEndOptions : closeYearEndModal(option)

Spec == Init /\ [][Next]_vars

(***************************************************************************)
(* Properties of the task and subtask rules, checked under Spec.           *)
(***************************************************************************)
Mounted == hasCheckedYearRef

\* the index of the task with this id
IndexOf(id) == CHOOSE i \in DOMAIN tasks : tasks[i].id = id

Stamped(x) == (x.completedAt # NULL) <=> x.completed

\* C1: in every reachable state, every task and every subtask has a
\* completedAt that is non-null exactly when it is completed.
C1_CompletedAtIffCompleted ==
  \A i \in DOMAIN tasks :
    /\ Stamped(tasks[i])
    /\ \A j \in DOMAIN tasks[i].subtasks : Stamped(tasks[i].subtasks[j])

\* C1 witness: after a year-end choice has archived a summary, a completed
\* task holds a completed subtask.
C1_Witness ==
  /\ stYearSummaries # NullRec
  /\ \E i \in DOMAIN tasks :
       /\ tasks[i].completed /\ tasks[i].completedAt # NULL
       /\ \E j \in DOMAIN tasks[i].subtasks :
            tasks[i].subtasks[j].completed
            /\ tasks[i].subtasks[j].completedAt # NULL

\* C2: every completed task whose subtask list is empty was completed by an
\* explicit toggle (manuallyCompleted = TRUE).
C2_NoSubtasksNeverAutoCompleted ==
  \A i \in DOMAIN tasks :
    (tasks[i].completed /\ tasks[i].subtasks = <<>>) => tasks[i].manuallyCompleted

AllDone(subs) == Len(subs) > 0 /\ \A j \in DOMAIN subs : subs[j].completed

\* the parent rule of a subtask toggle, between the parent before and after
ParentRule(old, new) ==
  /\ AllDone(new.subtasks) =>
       new.completed /\ new.manuallyCompleted = old.manuallyCompleted
  /\ (~AllDone(new.subtasks) /\ ~old.manuallyCompleted) =>
       ~new.completed /\ ~new.manuallyCompleted
  /\ (~AllDone(new.subtasks) /\ old.manuallyCompleted) =>
       new.completed /\ new.manuallyCompleted

\* C3: a step of handleToggleSubtask flips that subtask alone and leaves the
\* parent completed if all its subtasks are now complete (manual flag kept),
\* incomplete if not all are complete and it was not manually completed, and
\* completed if not all are complete and it was manually completed.
C3_ToggleSubtaskRule ==
  [][\A p \in TaskIds : \A s \in SubtaskIds(p) :
       handleToggleSubtask(p, s) =>
         LET old == tasks[IndexOf(p)]
             new == tasks'[IndexOf(p)]
         IN  /\ DOMAIN new.subtasks = DOMAIN old.subtasks
             /\ \A j \in DOMAIN old.subtasks :
                  IF old.subtasks[j].id = s
                  THEN new.subtasks[j].completed = ~old.subtasks[j].completed
                  ELSE new.subtasks[j] = old.subtasks[j]
             /\ ParentRule(old, new)]_vars

\* C3 witness: a parent of two subtasks, both complete, that is completed
\* without the manual flag (completing the last subtask completed it).
C3_Witness ==
  \E i \in DOMAIN tasks :
    /\ Len(tasks[i].subtasks) = 2
    /\ AllDone(tasks[i].subtasks)
    /\ tasks[i].completed /\ ~tasks[i].manuallyCompleted

\* C4: a step of handleDeleteSubtask removes that subtask and leaves the
\* parent as a subtask toggle would on the remaining subtasks: completed if
\* they are non-empty and all complete, incomplete if not and the parent is
\* not manually completed (also when none remains), unchanged if manual.
C4_DeleteSubtaskRule ==
  [][\A p \in TaskIds : \A s \in SubtaskIds(p) :
       handleDeleteSubtask(p, s) =>
         LET old == tasks[IndexOf(p)]
             new == tasks'[IndexOf(p)]
         IN  /\ new.subtasks = SelectSeq(old.subtasks, LAMBDA x : x.id # s)
             /\ ParentRule(old, new)]_vars

\* C5: a step of handleToggleCompleted on a completed task leaves it
\* completed with a completedAt and without the manual flag if it has a
\* subtask and all its subtasks are completed, and otherwise incomplete with
\* completedAt = null and without the manual flag.
C5_UncompleteReevaluates ==
  [][\A p \in TaskIds :
       (handleToggleCompleted(p) /\ tasks[IndexOf(p)].completed) =>
         LET old == tasks[IndexOf(p)]
             new == tasks'[IndexOf(p)]
         IN  /\ ~new.manuallyCompleted
             /\ new.subtasks = old.subtasks
             /\ IF AllDone(old.subtasks)
                THEN new.completed /\ new.completedAt # NULL
                ELSE ~new.completed /\ new.completedAt = NULL]_vars

\* C5 witness: a task that was toggled off while all its subtasks were
\* complete: completed again, without the manual flag, at an instant later
\* than every completion of a subtask.
C5_Witness ==
  \E i \in DOMAIN tasks :
    /\ AllDone(tasks[i].subtasks)
    /\ tasks[i].completed /\ ~tasks[i].manuallyCompleted
    /\ \A j \in DOMAIN tasks[i].subtasks :
         tasks[i].subtasks[j].completedAt < tasks[i].completedAt

\* C6: a step of handleToggleCompleted on an incomplete task without
\* subtasks completes it with the manual flag, and toggling it again in the
\* state reached gives back the task list the step started from.
C6_ToggleTwiceRestores ==
  [][\A p \in TaskIds :
       (handleToggleCompleted(p) /\ ~tasks[IndexOf(p)].completed
          /\ tasks[IndexOf(p)].subtasks = <<>>) =>
         /\ tasks'[IndexOf(p)].completed
         /\ tasks'[IndexOf(p)].completedAt = now
         /\ tasks'[IndexOf(p)].manuallyCompleted
         /\ MapTask(tasks', p, LAMBDA t : toggleCompleted(t, now')) = tasks]_vars

\* C6 witness: beside another task, a task without subtasks has been
\* completed by a toggle.
C6_Witness ==
  /\ Len(tasks) = 2
  /\ \E i \in DOMAIN tasks :
       /\ tasks[i].subtasks = <<>>
       /\ tasks[i].completed /\ tasks[i].manuallyCompleted

(***************************************************************************)
(* The metrics engine on stored task lists.  The page is loaded on a task  *)
(* list that earlier sessions left in localStorage: tasks carried forward  *)
(* from December 31st, 2025 and tasks created on a Thursday of 2026 (one   *)
(* in each of the ISO weeks 1 .. 53 of that year), completed or not.       *)
(***************************************************************************)
\* tasks of a stored list
MaxStored == 2

ThisYear == getFullYear(ClockStart + 1)

\* the last instant of this year
YearEnd == (YearStartDay(ThisYear + 1) * MS_PER_DAY) - 1

\* the Thursdays of this year, at midnight
AnchorInstants == {(YearStartDay(ThisYear) + 7 * k) * MS_PER_DAY : k \in 0 .. 52}

\* the instants the page is loaded at, for a list whose tasks of this year
\* were created at a: that instant, or the afternoon a week later
LoadInstants(a) == {a, Min(a + (7 * MS_PER_DAY) + 1, YearEnd)}

\* creation and completion of a stored task: created last year and carried
\* forward, or created at a; not completed, or completed at a or at n
StoredShapes(a, n) ==
  [createdAt : {ClockStart, a}, completedAt : {NULL, a, n}]

\* handleAddTask prepends: a stored list has its newest task first
StoredLists(a, n) ==
  UNION {{l \in [1 .. len -> StoredShapes(a, n)] :
            \A i \in 1 .. (len - 1) : l[i].createdAt >= l[i + 1].createdAt} :
         len \in 0 .. MaxStored}

\* the Task objects of a stored list, the oldest holding identifier 1
StoredTasks(l) ==
  [i \in DOMAIN l |->
     [Task((Len(l) - i) + 1, <<"a">>, l[i].createdAt)
        EXCEPT !.completed = l[i].completedAt # NULL,
               !.completedAt = l[i].completedAt,
               !.manuallyCompleted = l[i].completedAt # NULL]]

HasCarried(l) == \E i \in DOMAIN l : l[i].createdAt = ClockStart

\* the join week the sessions that wrote the list left: week 1 after a
\* carry-forward, else the week of the first task added this year
StoredJoinWeek(l, a) ==
  IF l = <<>> THEN NullRec
  ELSE saveJoinWeek(NullRec,
                    IF HasCarried(l) THEN 1 ELSE Min(52, getISOWeek(a).isoWeek),
                    ThisYear)

\* the archive a carry-forward left
StoredSummaries(l) ==
  IF HasCarried(l)
  THEN appendYearSummary(NullRec,
         [year |-> ThisYear - 1, tasksCompleted |-> 0, streakWeeks |-> 0,
          paceWeeks |-> 52])
  ELSE NullRec

InitMetrics ==
  \E a \in AnchorInstants : \E n \in LoadInstants(a) :
    \E l \in StoredLists(a, n) :
      /\ now = n
      /\ nextId = Len(l) + 1
      /\ tasks = <<>>
      /\ joinWeekSnapshot = NullRec
      /\ yearEndModal = NullRec
      /\ yearMetrics = getYearMetrics(NullRec, <<>>, n)
      /\ hasCheckedYearRef = FALSE
      /\ stTasks = saveTasks(NullRec, StoredTasks(l))
      /\ stJoinWeek = StoredJoinWeek(l, a)
      /\ stLastSeenYear = setLastSeenYear(NULL, ThisYear)
      /\ stYearSummaries = StoredSummaries(l)
      /\ checkinModal = NullRec
      /\ hasCheckedCheckinRef = FALSE
      /\ stLastWeeklyCheckinWeekKey = setLastWeeklyCheckinWeekKey(NULL, getWeekKey(n))
      /\ stAppInstallTimestamp =
           setAppInstallTimestamp(NULL, IF HasCarried(l) THEN ClockStart ELSE a)

NextMetrics == Mount

SpecMetrics == InitMetrics /\ [][NextMetrics]_vars

(***************************************************************************)
(* Properties of the metrics engine, checked under SpecMetrics.            *)
(***************************************************************************)
\* the creation instants of the tasks created in the calendar year of now
CreatedThisYear ==
  {tasks[i].createdAt :
     i \in {k \in DOMAIN tasks : getFullYear(tasks[k].createdAt) = getFullYear(now)}}

\* the earliest of them
FirstTaskOfYear ==
  LET created == CreatedThisYear
  IN  CHOOSE m \in created : \A c \in created : m <= c

\* completions since the first task of the year
CompletionsSinceFirst ==
  LET first == FirstTaskOfYear
  IN  Cardinality({i \in DOMAIN tasks :
                     tasks[i].completed /\ tasks[i].completedAt >= first})

\* elapsed 7-day windows since the first task of the year, its own included
WindowsSinceFirst == ((DayOf(now) - DayOf(FirstTaskOfYear)) \div 7) + 1

\* C7: once the page has loaded a list with a task created this year, the
\* pace status is behind when the completions since the first task of the
\* year are fewer than the elapsed 7-day windows, onTrack when they are
\* equal, and ahead when the completions are more.
C7_PaceStatusThreeWay ==
  (Mounted /\ CreatedThisYear # {}) =>
    yearMetrics.paceStatus =
      IF CompletionsSinceFirst < WindowsSinceFirst THEN "behind"
      ELSE IF CompletionsSinceFirst = WindowsSinceFirst THEN "onTrack"
      ELSE "ahead"

\* C8: once the page has loaded, tasksCompleted is the number of tasks that
\* are completed with a completion instant in the current calendar year,
\* whatever their year of creation.
C8_TasksCompletedThisYear ==
  Mounted =>
    yearMetrics.tasksCompleted =
      Cardinality({i \in DOMAIN tasks :
                     /\ tasks[i].completed
                     /\ tasks[i].completedAt # NULL
                     /\ getFullYear(tasks[i].completedAt) = getFullYear(now)})

\* the ISO week of the first task of the year
FirstTaskWeek == getISOWeek(FirstTaskOfYear).isoWeek

\* C9 as stated: the target is 52 without a task created this year, else 52
\* minus the ISO week of the earliest task created this year, floored at 1
\* and capped at 52, and so always in 1 .. 52.
C9_TargetAsStated ==
  Mounted =>
    /\ yearMetrics.targetTasksThisYear \in 1 .. 52
    /\ yearMetrics.targetTasksThisYear =
         IF CreatedThisYear = {} THEN 52
         ELSE Min(52, Max(1, 52 - FirstTaskWeek))

\* C9: the target is 52 without a task created this year, else 53 minus the
\* ISO week of the earliest task created this year, floored at 1 and capped
\* at 52, and so always in 1 .. 52, for every ISO week 1 .. 53.
C9_TargetFlooredAndCapped ==
  Mounted =>
    /\ yearMetrics.targetTasksThisYear \in 1 .. 52
    /\ yearMetrics.targetTasksThisYear =
         IF CreatedThisYear = {} THEN 52
         ELSE Min(52, Max(1, 53 - FirstTaskWeek))

\* C9 witness: the first task of the year was created in ISO week 53, and
\* the floor gives the target 1.
C9_Witness ==
  /\ Mounted
  /\ CreatedThisYear # {}
  /\ FirstTaskWeek = 53
  /\ yearMetrics.targetTasksThisYear = 1

(***************************************************************************)
(* The pace over a year.  The first task of year Y was created at some     *)
(* half day of ISO week 10 of Y, a number of tasks were created and        *)
(* completed with it, and the page is loaded at some half day of ISO week  *)
(* 52 of Y.                                                                *)
(***************************************************************************)
\* years whose ISO week 52 ends on January 2nd, on December 29th and on
\* December 27th
PaceYears == {2021, 2024, 2026}

\* completed tasks of the stored list
PaceCounts == 41 .. 44

\* the day number of the Monday of ISO week w of ISO year y (January 4th is
\* in week 1)
MondayOfISOWeek(y, w) ==
  LET jan4 == YearStartDay(y) + 3
  IN  (jan4 - ((getUTCDay(jan4) + 6) % 7)) + 7 * (w - 1)

\* the half days of ISO week w of ISO year y
InstantsOfISOWeek(y, w) ==
  {(MondayOfISOWeek(y, w) * MS_PER_DAY) + h : h \in 0 .. (7 * MS_PER_DAY - 1)}

\* n tasks created and completed at c, the oldest holding identifier 1
PaceTasks(c, n) ==
  [i \in 1 .. n |->
     [Task((n - i) + 1, <<"a">>, c)
        EXCEPT !.completed = TRUE, !.completedAt = c,
               !.manuallyCompleted = TRUE]]

InitPace ==
  \E y \in PaceYears : \E c \in InstantsOfISOWeek(y, 10) :
    \E n \in InstantsOfISOWeek(y, 52) : \E count \in PaceCounts :
      /\ now = n
      /\ nextId = count + 1
      /\ tasks = <<>>
      /\ joinWeekSnapshot = NullRec
      /\ yearEndModal = NullRec
      /\ yearMetrics = getYearMetrics(NullRec, <<>>, n)
      /\ hasCheckedYearRef = FALSE
      /\ stTasks = saveTasks(NullRec, PaceTasks(c, count))
      /\ stJoinWeek = saveJoinWeek(NullRec, 10, y)
      /\ stLastSeenYear = setLastSeenYear(NULL, y)
      /\ stYearSummaries = NullRec
      /\ checkinModal = NullRec
      /\ hasCheckedCheckinRef = FALSE
      /\ stLastWeeklyCheckinWeekKey = setLastWeeklyCheckinWeekKey(NULL, getWeekKey(c))
      /\ stAppInstallTimestamp = setAppInstallTimestamp(NULL, c)

NextPace == Mount

SpecPace == InitPace /\ [][NextPace]_vars

(***************************************************************************)
(* Properties of the pace over a year, checked under SpecPace.             *)
(***************************************************************************)
\* the ISO year of now
PaceYear == getISOWeek(now).isoYear

\* the creation instants of the tasks created in calendar year PaceYear
CreatedInPaceYear ==
  {tasks[i].createdAt :
     i \in {k \in DOMAIN tasks : getFullYear(tasks[k].createdAt) = PaceYear}}

FirstOfPaceYear ==
  LET created == CreatedInPaceYear
  IN  CHOOSE m \in created : \A c \in created : m <= c

\* the page has loaded in ISO week 52 of a year whose first task was
\* created in ISO week 10
Week10ToWeek52 ==
  /\ Mounted
  /\ getISOWeek(now).isoWeek = 52
  /\ CreatedInPaceYear # {}
  /\ getISOWeek(FirstOfPaceYear).isoWeek = 10

CompletedSinceFirstOfPaceYear ==
  LET first == FirstOfPaceYear
  IN  Cardinality({i \in DOMAIN tasks :
                     tasks[i].completed /\ tasks[i].completedAt >= first})

NotBehind == yearMetrics.paceStatus \in {"onTrack", "ahead"}

\* C10 as stated: with the first task of year Y created in ISO week 10, at
\* every moment of ISO week 52 of Y the target is 43 and the pace status is
\* onTrack or ahead with at least 43 completions since that task and behind
\* with fewer than 43, whatever the weekdays.
C10_Week52AsStated ==
  Week10ToWeek52 =>
    /\ yearMetrics.targetTasksThisYear = 43
    /\ CompletedSinceFirstOfPaceYear >= 43 => NotBehind
    /\ CompletedSinceFirstOfPaceYear < 43 => yearMetrics.paceStatus = "behind"

\* C10: with the first task of year Y created in ISO week 10, at every
\* moment of ISO week 52 of Y that lies in calendar year Y the target is 43
\* and the pace status is onTrack or ahead with at least 43 completions
\* since that task and behind with fewer than 42; with exactly 42 it is
\* onTrack or ahead exactly when fewer than 42 whole weeks separate the day
\* of creation from the current day.
C10_Week52WithinYear ==
  (Week10ToWeek52 /\ getFullYear(now) = PaceYear) =>
    /\ yearMetrics.targetTasksThisYear = 43
    /\ CompletedSinceFirstOfPaceYear >= 43 => NotBehind
    /\ CompletedSinceFirstOfPaceYear < 42 => yearMetrics.paceStatus = "behind"
    /\ CompletedSinceFirstOfPaceYear = 42 =>
         (NotBehind <=> DayOf(now) - DayOf(FirstOfPaceYear) < 42 * 7)

\* C10 witness: in ISO week 52, 42 completions since a first task of ISO
\* week 10 are on track.
C10_Witness ==
  /\ Week10ToWeek52
  /\ getFullYear(now) = PaceYear
  /\ CompletedSinceFirstOfPaceYear = 42
  /\ yearMetrics.targetTasksThisYear = 43
  /\ yearMetrics.paceStatus = "onTrack"

(***************************************************************************)
(* The ISO week of the first days of a year.  The page is loaded, on empty *)
(* storage, at some half day of January 1st .. 7th of a year; the metrics  *)
(* of the load hold getISOWeek of that instant.                            *)
(***************************************************************************)
\* the years checked: every weekday of January 4th, leap years and common
\* years, and the century year 2100 that is not a leap year
CalendarYears == 2001 .. 2120

\* the half days of January 1st .. 7th of year y
FirstDaysOf(y) ==
  {((YearStartDay(y) + k) * MS_PER_DAY) + h :
     k \in 0 .. 6, h \in 0 .. (MS_PER_DAY - 1)}

InitCalendar ==
  \E y \in CalendarYears : \E n \in FirstDaysOf(y) :
    /\ now = n
    /\ nextId = 1
    /\ tasks = <<>>
    /\ joinWeekSnapshot = NullRec
    /\ yearEndModal = NullRec
    /\ yearMetrics = getYearMetrics(NullRec, <<>>, n)
    /\ hasCheckedYearRef = FALSE
    /\ stTasks = NullRec
    /\ stJoinWeek = NullRec
    /\ stLastSeenYear = NULL
    /\ stYearSummaries = NullRec
    /\ checkinModal = NullRec
    /\ hasCheckedCheckinRef = FALSE
    /\ stLastWeeklyCheckinWeekKey = NULL
    /\ stAppInstallTimestamp = NULL

NextCalendar == Mount

SpecCalendar == InitCalendar /\ [][NextCalendar]_vars

(***************************************************************************)
(* Properties of getISOWeek, checked under SpecCalendar.                   *)
(***************************************************************************)
IsLeapYear(y) == YearStartDay(y + 1) - YearStartDay(y) = 366

\* now is a half day of January 4th
IsJanuary4th == DayOf(now) = YearStartDay(getFullYear(now)) + 3

\* C11: on a load on January 4th of any of the years checked, whatever its
\* weekday and whether or not the year is a leap year, getISOWeek of the
\* instant is ISO week 1 of that same year.
C11_January4thIsWeek1 ==
  (Mounted /\ IsJanuary4th) =>
    /\ yearMetrics.calendarWeekNow = 1
    /\ yearMetrics.isoYearNow = getFullYear(now)
    /\ getISOWeek(now) = [isoYear |-> getFullYear(now), isoWeek |-> 1]

\* C11 witness: a load on a January 4th that is a Sunday, in a leap year,
\* finds week 1.
C11_Witness ==
  /\ Mounted
  /\ IsJanuary4th
  /\ getUTCDay(DayOf(now)) = 0
  /\ IsLeapYear(getFullYear(now))
  /\ yearMetrics.calendarWeekNow = 1

(***************************************************************************)
(* The year rollover.  Sessions of 2025 left a task list, the join week of *)
(* its first task and the last-seen year 2025; the page is loaded in 2026, *)
(* the year-end prompt is answered, tasks are added and deleted.  The      *)
(* clock stands still during the run.                                      *)
(***************************************************************************)
\* Thursdays of last year, at midnight, in the ISO weeks 1, 2, 10, 27, 51
\* and 52 of that year
RolloverAnchors ==
  {(YearStartDay(ThisYear - 1) + 1 + 7 * k) * MS_PER_DAY : k \in {0, 1, 9, 26, 50, 51}}

\* the instants the page is loaded at: January 1st and January 15th
RolloverLoads ==
  {(YearStartDay(ThisYear) + k) * MS_PER_DAY : k \in {0, 14}}

\* stored tasks of last year, created at a: not completed, or completed at
\* once or a week later (at the latest on December 31st)
RolloverShapes(a) ==
  [createdAt : {a},
   completedAt : {NULL, a, Min(a + 7 * MS_PER_DAY, ClockStart)}]

RolloverLists(a) ==
  UNION {[1 .. len -> RolloverShapes(a)] : len \in 0 .. MaxStored}

InitRollover ==
  \E a \in RolloverAnchors : \E n \in RolloverLoads :
    \E l \in RolloverLists(a) :
      /\ now = n
      /\ nextId = Len(l) + 1
      /\ tasks = <<>>
      /\ joinWeekSnapshot = NullRec
      /\ yearEndModal = NullRec
      /\ yearMetrics = getYearMetrics(NullRec, <<>>, n)
      /\ hasCheckedYearRef = FALSE
      /\ stTasks = saveTasks(NullRec, StoredTasks(l))
      /\ stJoinWeek =
           IF l = <<>> THEN NullRec
           ELSE saveJoinWeek(NullRec, Min(52, getISOWeek(a).isoWeek),
                             ThisYear - 1)
      /\ stLastSeenYear = setLastSeenYear(NULL, ThisYear - 1)
      /\ stYearSummaries = NullRec
      /\ checkinModal = NullRec
      /\ hasCheckedCheckinRef = FALSE
      /\ stLastWeeklyCheckinWeekKey =
           setLastWeeklyCheckinWeekKey(
             NULL, getWeekKey(Min(a + 7 * MS_PER_DAY, ClockStart)))
      /\ stAppInstallTimestamp = setAppInstallTimestamp(NULL, a)

NextRollover ==
  \/ Mount
  \/ \E option \in YearEndOptions : closeYearEndModal(option)
  \/ \E input \in Titles : handleAddTask(input)
  \/ \E taskId \in TaskIds : handleToggleCompleted(taskId)
  \/ \E taskId \in TaskIds : handleDelete(taskId)

SpecRollover == InitRollover /\ [][NextRollover]_vars

(***************************************************************************)
(* Properties of the year rollover, checked under SpecRollover.            *)
(***************************************************************************)
\* the number of archived summaries of year y in a stored item
SummariesOf(item, y) ==
  LET list == loadYearSummaries(item)
  IN  Cardinality({i \in DOMAIN list : list[i].year = y})

\* the step is an answer to the year-end prompt
IsYearEndAnswer == \E option \in YearEndChoices : closeYearEndModal(option)

CompletedInYear(list, y) ==
  Cardinality({i \in DOMAIN list :
                 /\ list[i].completed
                 /\ list[i].completedAt # NULL
                 /\ getFullYear(list[i].completedAt) = y})

\* C13: a load that opens the year-end prompt (persisted last-seen year Y
\* before the current year) gives it, as tasksCompleted, the number of
\* persisted tasks completed with a completion instant in year Y.
C13_PromptCountsLastYear ==
  [][(Mount /\ yearEndModal' # NullRec) =>
       yearEndModal'.tasksCompleted =
         CompletedInYear(loadTasks(stTasks), stLastSeenYear)]_vars

\* C14: a load that opens the year-end prompt with a persisted join-week
\* snapshot of joinWeek w for the last-seen year Y gives it, as paceWeeks,
\* min(52, max(1, 52 - w + 1)), and 52 only without a snapshot for Y.
C14_PromptPaceWeeksOfLastYear ==
  [][(Mount /\ yearEndModal' # NullRec) =>
       yearEndModal'.paceWeeks =
         IF stJoinWeek # NullRec /\ JSONparse(stJoinWeek).year = stLastSeenYear
         THEN Min(52, Max(1, 52 - JSONparse(stJoinWeek).joinWeek + 1))
         ELSE 52]_vars

\* after holds the incomplete tasks of before, unchanged and in their order
IsIncompleteRest(before, after) ==
  LET idx == {i \in DOMAIN before : ~before[i].completed}
  IN  /\ Len(after) = Cardinality(idx)
      /\ \A i \in idx : after[Cardinality({j \in idx : j <= i})] = before[i]

\* C15: whenever the year-end prompt is open, closeYearEndModal leaves the
\* task list unchanged for close, the incomplete tasks unchanged and in
\* their order for carry forward, and no task for start fresh and start new
\* year; a step of it leaves that list, the current year as persisted
\* last-seen year, and no prompt.
C15_YearEndAnswerFrame ==
  [][yearEndModal # NullRec =>
       \A option \in YearEndChoices :
         LET after == yearEndTasks(option, tasks)
         IN  /\ option = "close" => after = tasks
             /\ option = "carryForward" => IsIncompleteRest(tasks, after)
             /\ option \in {"startFresh", "startNewYear"} => after = <<>>
             /\ closeYearEndModal(option) =>
                  /\ tasks' = after
                  /\ stLastSeenYear' = getFullYear(now)
                  /\ yearEndModal' = NullRec]_vars

\* C15 witness: after an archiving answer, a task of last year is still in
\* the list, every task of the list is incomplete, and a task is gone.
C15_Witness ==
  /\ Mounted
  /\ yearEndModal = NullRec
  /\ stYearSummaries # NullRec
  /\ stLastSeenYear = getFullYear(now)
  /\ \E i \in DOMAIN tasks : getFullYear(tasks[i].createdAt) < getFullYear(now)
  /\ \A i \in DOMAIN tasks : ~tasks[i].completed
  /\ nextId - 1 > Len(tasks)

\* a join-week snapshot exists for the current year
HasJoinWeek(snapshot, ts) == snapshot # NullRec /\ snapshot.year = getFullYear(ts)

\* C16 as stated: a join-week snapshot of the current year holds the ISO
\* week (capped at 52) in which the first task of the year was added, and
\* once it exists for the year no step changes it.
C16_JoinWeekOfFirstTask ==
  [][/\ (HasJoinWeek(joinWeekSnapshot', now') /\ CreatedThisYear' # {}) =>
          joinWeekSnapshot'.joinWeek =
            Min(52, getISOWeek(FirstTaskOfYear').isoWeek)
     /\ (HasJoinWeek(joinWeekSnapshot, now) /\ HasJoinWeek(joinWeekSnapshot', now')) =>
          joinWeekSnapshot' = joinWeekSnapshot]_vars

\* C16: a join-week snapshot of the current year holds 1 once a year-end
\* answer other than close has been given in that year, and otherwise the
\* ISO week (capped at 52) in which the first task of the year was added;
\* it changes only on a load, on an add of a task while no snapshot of the
\* year exists, and on a year-end answer other than close.
C16_JoinWeekOrReset ==
  [][/\ HasJoinWeek(joinWeekSnapshot', now') =>
          joinWeekSnapshot'.joinWeek =
            IF stYearSummaries' # NullRec THEN 1
            ELSE Min(52, getISOWeek(now').isoWeek)
     /\ joinWeekSnapshot' # joinWeekSnapshot =>
          \/ Mount
          \/ /\ ~HasJoinWeek(joinWeekSnapshot, now)
             /\ \E input \in Titles : handleAddTask(input)
          \/ \E option \in YearEndChoices \ {"close"} :
               closeYearEndModal(option)]_vars

\* C16 witness: the snapshot of the current year holds week 1, set by a
\* year-end answer, and the first task of the year was added in ISO week 3.
C16_Witness ==
  /\ Mounted
  /\ HasJoinWeek(joinWeekSnapshot, now)
  /\ joinWeekSnapshot.joinWeek = 1
  /\ CreatedThisYear # {}
  /\ FirstTaskWeek = 3

(***************************************************************************)
(* The weekly check-in over a week boundary.  On the afternoon of a Sunday *)
(* of June the storage is empty (first use), or holds what earlier         *)
(* sessions left: first use that morning or a week before, last check that *)
(* day or a week before.  The page is loaded and reloaded, tasks are       *)
(* toggled, the prompt is dismissed, and the clock runs into the next ISO  *)
(* week.                                                                   *)
(***************************************************************************)
\* half days the clock advances over the week boundary
MaxCheckinTicks == 3

\* the afternoon of the Sunday of ISO week 23 of this year
CheckinStart == (MondayOfISOWeek(ThisYear, 24) * MS_PER_DAY) - 1

\* first use and last check of the earlier sessions: first use on Sunday
\* morning or a week before; last check this week or, with a first use a
\* week before, in that week
EarlierSessions ==
  {[install |-> CheckinStart - 1, last |-> CheckinStart],
   [install |-> CheckinStart - 7 * MS_PER_DAY, last |-> CheckinStart],
   [install |-> CheckinStart - 7 * MS_PER_DAY,
    last |-> CheckinStart - 7 * MS_PER_DAY]}

\* stored tasks, created at first use: not completed, or completed at first
\* use or in the session of the last check
CheckinLists(e) ==
  UNION {[1 .. len -> [createdAt : {e.install},
                       completedAt : {NULL, e.install, e.last}]] :
         len \in 0 .. MaxStored}

InitCheckinFirstUse ==
  /\ nextId = 1
  /\ stTasks = NullRec
  /\ stJoinWeek = NullRec
  /\ stLastSeenYear = NULL
  /\ stLastWeeklyCheckinWeekKey = NULL
  /\ stAppInstallTimestamp = NULL

InitCheckinEarlierSessions ==
  \E e \in EarlierSessions : \E l \in CheckinLists(e) :
    /\ nextId = Len(l) + 1
    /\ stTasks = saveTasks(NullRec, StoredTasks(l))
    /\ stJoinWeek =
         IF l = <<>> THEN NullRec
         ELSE saveJoinWeek(NullRec, Min(52, getISOWeek(e.install).isoWeek),
                           ThisYear)
    /\ stLastSeenYear = setLastSeenYear(NULL, ThisYear)
    /\ stLastWeeklyCheckinWeekKey =
         setLastWeeklyCheckinWeekKey(NULL, getWeekKey(e.last))
    /\ stAppInstallTimestamp = setAppInstallTimestamp(NULL, e.install)

InitCheckin ==
  /\ now = CheckinStart
  /\ tasks = <<>>
  /\ joinWeekSnapshot = NullRec
  /\ yearEndModal = NullRec
  /\ yearMetrics = getYearMetrics(NullRec, <<>>, CheckinStart)
  /\ hasCheckedYearRef = FALSE
  /\ stYearSummaries = NullRec
  /\ checkinModal = NullRec
  /\ hasCheckedCheckinRef = FALSE
  /\ (InitCheckinFirstUse \/ InitCheckinEarlierSessions)

\* time passes
TickCheckin ==
  /\ now < CheckinStart + MaxCheckinTicks
  /\ now' = now + 1
  /\ UNCHANGED checkinVars
  /\ UNCHANGED <<nextId, tasks, joinWeekSnapshot, yearEndModal,
                 yearMetrics, hasCheckedYearRef, stTasks, stJoinWeek,
                 stLastSeenYear, stYearSummaries>>

NextCheckin ==
  \/ Mount
  \/ TickCheckin
  \/ \E taskId \in TaskIds : handleToggleCompleted(taskId)
  \/ dismissCheckinModal

SpecCheckin == InitCheckin /\ [][NextCheckin]_vars

(***************************************************************************)
(* Properties of the weekly check-in, checked under SpecCheckin.           *)
(***************************************************************************)
\* the step is a load that shows the weekly check-in prompt
ShowsCheckin == Mount /\ checkinModal' = [source |-> "real"]

\* C17: a load shows the weekly check-in prompt only when the stored week
\* key is not the current ISO week key, and leaves the current key stored;
\* the stored key changes only on a load, to the current key, and only a
\* load opens the prompt.  So between two showings the current key has
\* changed: the prompt is shown at most once per ISO week key.
C17_CheckinOncePerWeekKey ==
  [][/\ ShowsCheckin =>
          /\ stLastWeeklyCheckinWeekKey # getWeekKey(now)
          /\ stLastWeeklyCheckinWeekKey' = getWeekKey(now)
     /\ stLastWeeklyCheckinWeekKey' # stLastWeeklyCheckinWeekKey =>
          Mount /\ stLastWeeklyCheckinWeekKey' = getWeekKey(now)
     /\ (checkinModal = NullRec /\ checkinModal' # NullRec) => Mount]_vars

\* C17 witness: after a load in a week already checked, long after first
\* use and without a completion this week, no prompt is open.
C17_Witness ==
  /\ Mounted
  /\ checkinModal = NullRec
  /\ stLastWeeklyCheckinWeekKey = getWeekKey(now)
  /\ now - stAppInstallTimestamp >= COOLDOWN_MS
  /\ getISOWeek(now).isoWeek = getISOWeek(CheckinStart).isoWeek + 1
  /\ \A i \in DOMAIN tasks : ~tasks[i].completed

\* the number of tasks of a list completed in the ISO week of ts
CompletedInWeekOf(list, ts) ==
  Cardinality({i \in DOMAIN list :
                 /\ list[i].completed
                 /\ list[i].completedAt # NULL
                 /\ getISOWeek(list[i].completedAt) = getISOWeek(ts)})

\* C18: no load shows the weekly check-in prompt while a persisted task is
\* completed with a completion instant in the current ISO week.
C18_NoCheckinAfterCompletion ==
  [][ShowsCheckin => CompletedInWeekOf(loadTasks(stTasks), now) = 0]_vars

\* C19: a load shows the weekly check-in prompt only when at least 24 hours
\* have passed since the stored install timestamp; a load without a stored
\* install timestamp records the current instant and shows no prompt; a
\* stored install timestamp never changes.
C19_CheckinAfterCooldown ==
  [][/\ ShowsCheckin =>
          /\ stAppInstallTimestamp # NULL
          /\ now - stAppInstallTimestamp >= MS_PER_DAY
     /\ (Mount /\ stAppInstallTimestamp = NULL) =>
          /\ stAppInstallTimestamp' = now
          /\ checkinModal' = NullRec
     /\ stAppInstallTimestamp # NULL =>
          stAppInstallTimestamp' = stAppInstallTimestamp]_vars

\* C19 witness: the prompt is open exactly 24 hours after first use.
C19_Witness ==
  /\ checkinModal = [source |-> "real"]
  /\ stAppInstallTimestamp # NULL
  /\ now - stAppInstallTimestamp = MS_PER_DAY

(***************************************************************************)
(* Properties of adding a task, checked under Spec.                        *)
(***************************************************************************)
\* the identifiers of the tasks and subtasks of a list
IdsIn(list) ==
  {list[i].id : i \in DOMAIN list}
    \cup UNION {{list[i].subtasks[j].id : j \in DOMAIN list[i].subtasks} :
                i \in DOMAIN list}

\* C20: a step of handleAddTask with a title that is empty after trimming
\* changes neither the task list nor the join-week snapshot; with another
\* title it puts one task in front of the list, with an identifier no task
\* or subtask of the list holds, not completed, completedAt = null, not
\* manually completed and without subtasks, and leaves the tasks of the list
\* behind it, unchanged and in their order.
C20_AddTaskFrame ==
  [][\A input \in Titles :
       handleAddTask(input) =>
         IF trim(input) = <<>>
         THEN /\ tasks' = tasks
              /\ joinWeekSnapshot' = joinWeekSnapshot
              /\ stJoinWeek' = stJoinWeek
         ELSE /\ Len(tasks') = Len(tasks) + 1
              /\ Tail(tasks') = tasks
              /\ Head(tasks').id \notin IdsIn(tasks)
              /\ Head(tasks').title = trim(input)
              /\ Head(tasks').createdAt = now
              /\ ~Head(tasks').completed
              /\ Head(tasks').completedAt = NULL
              /\ ~Head(tasks').manuallyCompleted
              /\ Head(tasks').subtasks = <<>>]_vars

\* C20 witness: a task has been added in front of a completed task that
\* holds a subtask.
C20_Witness ==
  /\ Len(tasks) = 2
  /\ tasks[1].id = nextId - 1
  /\ ~tasks[1].completed /\ tasks[1].subtasks = <<>>
  /\ tasks[2].completed /\ Len(tasks[2].subtasks) = 1

\* ---------------------------------------------------------------------
\* Stored task lists of earlier versions and of a clock that ran ahead:
\* optional fields absent, timestamps later than the real current time.

\* the instant the page is loaded at: January 15th of this year, midnight
StorageNow == (YearStartDay(ThisYear) + 14) * MS_PER_DAY

\* the timestamps storage holds: half a day before the load and half a day,
\* or a day, after it
StorageInstants == {StorageNow - 1, StorageNow + 1, StorageNow + MS_PER_DAY}

\* r with the optional field f, when the stored object has it
WithOptional(r, f, has, v) == IF has THEN r @@ (f :> v) ELSE r

\* what an optional field holds in storage
CompletedAtChoices == {<<FALSE, NULL>>, <<TRUE, NULL>>} \cup
                      {<<TRUE, c>> : c \in StorageInstants}

\* the stored subtasks (id 2) of the stored task 1
StorageSubtasks ==
  {WithOptional([id |-> 2, title |-> <<"a">>, completed |-> c[2] # NULL,
                 createdAt |-> a],
                "completedAt", c[1], c[2]) :
     a \in {StorageNow - 1, StorageNow + 1}, c \in CompletedAtChoices}

SubtasksChoices ==
  {<<FALSE, <<>>>>, <<TRUE, <<>>>>} \cup {<<TRUE, <<s>>>> : s \in StorageSubtasks}

\* the stored task 1, every optional field present or absent
StorageTasks ==
  {WithOptional(
     WithOptional(
       WithOptional([id |-> 1, title |-> <<"a">>, completed |-> c[2] # NULL,
                     createdAt |-> a],
                    "completedAt", c[1], c[2]),
       "subtasks", s[1], s[2]),
     "manuallyCompleted", m[1], m[2] /\ c[2] # NULL) :
     a \in {StorageNow - 1, StorageNow + 1}, c \in CompletedAtChoices,
     s \in SubtasksChoices,
     m \in {<<FALSE, FALSE>>, <<TRUE, FALSE>>, <<TRUE, TRUE>>}}

\* a second stored task, written by this version half a day before the load
StoragePlain == Task(3, <<"a">>, StorageNow - 1)

StorageLists ==
  {<<>>} \cup {<<t>> : t \in StorageTasks}
         \cup {<<t, StoragePlain>> : t \in StorageTasks}
         \cup {<<StoragePlain, t>> : t \in StorageTasks}

\* the ids a stored list uses, its subtasks' included
StoredIds(l) ==
  {l[i].id : i \in DOMAIN l} \cup
  UNION {{OrDefault(l[i], "subtasks", <<>>)[j].id :
            j \in DOMAIN OrDefault(l[i], "subtasks", <<>>)} : i \in DOMAIN l}

InitStorage ==
  \E l \in StorageLists :
    /\ now = StorageNow
    /\ nextId = (IF 3 \in StoredIds(l) THEN 3
                 ELSE IF 2 \in StoredIds(l) THEN 2
                 ELSE Cardinality(StoredIds(l))) + 1
    /\ tasks = <<>>
    /\ joinWeekSnapshot = NullRec
    /\ yearEndModal = NullRec
    /\ yearMetrics = getYearMetrics(NullRec, <<>>, StorageNow)
    /\ hasCheckedYearRef = FALSE
    /\ stTasks = saveTasks(NullRec, l)
    /\ stJoinWeek =
         IF l = <<>> THEN NullRec
         ELSE saveJoinWeek(NullRec, Min(52, getISOWeek(StorageNow - 1).isoWeek),
                           ThisYear)
    /\ stLastSeenYear = setLastSeenYear(NULL, ThisYear)
    /\ stYearSummaries = NullRec
    /\ checkinModal = NullRec
    /\ hasCheckedCheckinRef = FALSE
    /\ stLastWeeklyCheckinWeekKey =
         setLastWeeklyCheckinWeekKey(NULL, getWeekKey(StorageNow - 1))
    /\ stAppInstallTimestamp = setAppInstallTimestamp(NULL, StorageNow - 1)

NextStorage ==
  \/ Mount
  \/ \E input \in Titles : handleAddTask(input)
  \/ \E taskId \in TaskIds : handleToggleCompleted(taskId)
  \/ \E parentId \in TaskIds : \E subtaskId \in SubtaskIds(parentId) :
       handleToggleSubtask(parentId, subtaskId)
  \/ \E parentId \in TaskIds : \E title \in Titles :
       handleAddSubtask(parentId, title)
  \/ \E parentId \in TaskIds : \E subtaskId \in SubtaskIds(parentId) :
       handleDeleteSubtask(parentId, subtaskId)
  \/ \E taskId \in TaskIds : handleDelete(taskId)

SpecStorage == InitStorage /\ [][NextStorage]_vars

\* the list storage holds, as it was written
StoredList == IF stTasks = NullRec THEN <<>> ELSE JSONparse(stTasks)

\* task t of the loaded list is task s of storage with its absent optional
\* fields filled: null, empty and false (timestamps apart)
FilledFrom(t, s) ==
  /\ t.id = s.id /\ t.title = s.title /\ t.completed = s.completed
  /\ "completedAt" \notin DOMAIN s => t.completedAt = NULL
  /\ t.manuallyCompleted =
       (IF "manuallyCompleted" \in DOMAIN s THEN s.manuallyCompleted ELSE FALSE)
  /\ IF "subtasks" \in DOMAIN s
     THEN /\ Len(t.subtasks) = Len(s.subtasks)
          /\ \A j \in DOMAIN s.subtasks :
               /\ t.subtasks[j].id = s.subtasks[j].id
               /\ t.subtasks[j].title = s.subtasks[j].title
               /\ t.subtasks[j].completed = s.subtasks[j].completed
               /\ "completedAt" \notin DOMAIN s.subtasks[j]
                    => t.subtasks[j].completedAt = NULL
     ELSE t.subtasks = <<>>

\* C21: once the page has loaded, after every task and subtask operation
\* the stored task list is the list in memory and parses back to it; a
\* reload of the page leaves the list in memory as it was; and the first
\* load yields the stored tasks in their order, every absent optional field
\* filled with null, the empty list or false.
C21_StoredListRoundTrip ==
  [][/\ Mounted' => /\ stTasks' = JSONstringify(tasks')
                    /\ StoredList' = tasks'
                    /\ loadTasks(stTasks') = tasks'
     /\ (Mounted /\ Mount) => tasks' = tasks
     /\ (~Mounted /\ Mount) =>
          /\ Len(tasks') = Len(StoredList)
          /\ \A i \in DOMAIN StoredList : FilledFrom(tasks'[i], StoredList[i])]_vars

\* the page was loaded from a list of two tasks, and one subtask and one
\* task were added since; the list in memory, with a manually completed
\* task and a completed subtask in it, is the stored one
C21_Witness ==
  /\ Mounted
  /\ nextId = MaxIds + 1
  /\ Len(tasks) >= 2
  /\ \E i \in DOMAIN tasks : tasks[i].manuallyCompleted
  /\ \E i \in DOMAIN tasks : \E j \in DOMAIN tasks[i].subtasks :
       tasks[i].subtasks[j].completed
  /\ stTasks = JSONstringify(tasks)
  /\ loadTasks(stTasks) = tasks

\* the latest timestamp a load keeps
FutureThreshold == now + SANITIZE_FUTURE_TOLERANCE_MS

\* what a load makes of the timestamp field f of the stored object s
LoadedInstant(s, f) ==
  IF f \notin DOMAIN s THEN NULL
  ELSE IF s[f] = NULL THEN NULL
  ELSE IF s[f] > FutureThreshold THEN now ELSE s[f]

\* every timestamp of the list l
InstantsOf(l) ==
  UNION {{l[i].createdAt, l[i].completedAt} \cup
         UNION {{l[i].subtasks[j].createdAt, l[i].subtasks[j].completedAt} :
                  j \in DOMAIN l[i].subtasks} : i \in DOMAIN l} \ {NULL}

C24_AutoCompletedHasAllSubtasksDone ==
  \A i \in DOMAIN tasks :
    (tasks[i].completed /\ ~tasks[i].manuallyCompleted)
      => AllDone(tasks[i].subtasks)

\* C25: whenever a toggle of a task to completed triggers the pace
\* celebration, the pace status the metrics compute from the resulting
\* task list is not "behind".
C25_CelebrationMatchesMetrics ==
  [][\A taskId \in TaskIds :
       (handleToggleCompleted(taskId) /\ paceCelebration(taskId) # "none")
         => getYearMetrics(joinWeekSnapshot', tasks', now').paceStatus
              # "behind"]_vars

\* C26: from the empty list, whatever tasks and subtasks are added, toggled
\* and deleted and whatever the answers to the year-end prompt, every task
\* with manuallyCompleted = true is completed.
C26_ManuallyCompletedIsCompleted ==
  \A i \in DOMAIN tasks : tasks[i].manuallyCompleted => tasks[i].completed

\* a task completed by hand keeps the flag and the completion while one of
\* its two subtasks is completed and the other is not
C26_Witness ==
  \E i \in DOMAIN tasks :
    /\ tasks[i].manuallyCompleted
    /\ tasks[i].completed
    /\ \E j \in DOMAIN tasks[i].subtasks : ~tasks[i].subtasks[j].completed
    /\ \E j \in DOMAIN tasks[i].subtasks : tasks[i].subtasks[j].completed

====
